---- MODULE Spec2Model ----
(***************************************************************************)
(* Aspect/opinion span decoding of the sentiment-analysis demo             *)
(* (applications/sentiment_analysis/demo.py, function decoding).           *)
(*                                                                         *)
(* A character is its Unicode code point; a string is a sequence of code   *)
(* points; a tag is one of the five label strings of the extraction model. *)
(* Python's 0-based indices are kept: entity offsets and split indices are *)
(* 0-based, and Slice(s, lo, hi) is Python's s[lo:hi].                     *)
(***************************************************************************)
EXTENDS Integers, Sequences, FiniteSets, TLC

VARIABLES text, tag_seq, pc, err, sub_texts, sub_tag_seqs, ents_list,
          aps, no_a_words, seg, k, sub_aps, sub_no_a_words

vars == <<text, tag_seq, pc, err, sub_texts, sub_tag_seqs, ents_list,
          aps, no_a_words, seg, k, sub_aps, sub_no_a_words>>

(***************************************************************************)
(* Bounds of the checked inputs.                                           *)
(***************************************************************************)
MaxLen == 3

\* code points: 97 'a'; 44 ','; 12290 the full-width full stop
Chars == {97, 44, 12290}

Tags == {"O", "B-Aspect", "I-Aspect", "B-Opinion", "I-Opinion"}

\* the string "None" (N, o, n, e), the sentinel of line 76
Sentinel == <<78, 111, 110, 101>>

\* the input text that spells the sentinel
SentinelText == Sentinel

SeqsUpTo(S, n) == UNION {[1..m -> S] : m \in 0..n}

Texts == SeqsUpTo(Chars, MaxLen) \cup {SentinelText}

(***************************************************************************)
(* Helpers for Python list operations.                                     *)
(***************************************************************************)
\* s[lo:hi] for 0 <= lo <= hi <= len(s)
Slice(s, lo, hi) == SubSeq(s, lo + 1, hi)

\* lst[-1].extend(items) on a list of lists
ExtendLast(lst, items) == [lst EXCEPT ![Len(lst)] = @ \o items]

\* lst[-1].append(item) on a list of lists
AppendLast(lst, item) == [lst EXCEPT ![Len(lst)] = Append(@, item)]

(***************************************************************************)
(* Lines 26-36: the punctuation split.                                     *)
(***************************************************************************)
\* line 26: list(",.?;!") and the five full-width forms
puncs == {44, 46, 63, 59, 33, 65292, 12290, 65311, 65307, 65281}

\* line 27: the ascending list of the indices idx with text[idx] in puncs
RECURSIVE SplitsFrom(_, _)
SplitsFrom(t, idx) ==
    IF idx >= Len(t) THEN <<>>
    ELSE IF t[idx + 1] \in puncs THEN <<idx>> \o SplitsFrom(t, idx + 1)
         ELSE SplitsFrom(t, idx + 1)

\* the scan of line 27 started at index 1
splits_FromOne(t) == SplitsFrom(t, 1)

splits(t) == SplitsFrom(t, 0)

\* the loop of lines 31-34 with prev = split + 1
RECURSIVE SubsFrom_SkipPunc(_, _, _, _)
SubsFrom_SkipPunc(s, sp, i, prev) ==
    IF i > Len(sp) THEN <<Slice(s, prev, Len(s))>>
    ELSE <<Slice(s, prev, sp[i])>> \o SubsFrom_SkipPunc(s, sp, i + 1, sp[i] + 1)

\* the loop of lines 31-34 with the punctuation character closing its segment:
\* the slice [prev:split + 1] and prev = split + 1
RECURSIVE SubsFrom_SplitAfter(_, _, _, _)
SubsFrom_SplitAfter(s, sp, i, prev) ==
    IF i > Len(sp) THEN <<Slice(s, prev, Len(s))>>
    ELSE <<Slice(s, prev, sp[i] + 1)>>
             \o SubsFrom_SplitAfter(s, sp, i + 1, sp[i] + 1)

\* lines 29-36: the loop over splits from position i with the running prev,
\* then the final slice s[prev:]
RECURSIVE SubsFrom(_, _, _, _)
SubsFrom(s, sp, i, prev) ==
    IF i > Len(sp) THEN <<Slice(s, prev, Len(s))>>
    ELSE <<Slice(s, prev, sp[i])>> \o SubsFrom(s, sp, i + 1, sp[i])

\* lines 29-36 with the empty slices left out
Subs_DropEmpty(s, sp) ==
    SelectSeq(SubsFrom(s, sp, 1, 0), LAMBDA x : x # <<>>)

\* lines 29-36: prev = 0 before the loop
Subs(s, sp) == SubsFrom(s, sp, 1, 0)

(***************************************************************************)
(* Line 40: get_entities(sub_tag_seq, suffix=False) of seqeval.            *)
(***************************************************************************)
\* tag = chunk[0]
TagOf(chunk) == IF chunk = "O" THEN "O"
                ELSE IF chunk \in {"B-Aspect", "B-Opinion"} THEN "B" ELSE "I"

\* type_ = chunk[1:].split('-', maxsplit=1)[-1] or '_'
TypeOf(chunk) == IF chunk = "O" THEN "_"
                 ELSE IF chunk \in {"B-Aspect", "I-Aspect"} THEN "Aspect"
                 ELSE "Opinion"

end_of_chunk(prev_tag, tag, prev_type, type_) ==
    \/ prev_tag = "B" /\ tag \in {"B", "O"}
    \/ prev_tag = "I" /\ tag \in {"B", "O"}
    \/ prev_tag # "O" /\ prev_type # type_

start_of_chunk(prev_tag, tag, prev_type, type_) ==
    \/ tag = "B"
    \/ prev_tag = "O" /\ tag = "I"
    \/ tag # "O" /\ prev_type # type_

\* the scan over seq + ['O'] from 0-based position i
RECURSIVE EntScan(_, _, _, _, _, _)
EntScan(seq, i, prev_tag, prev_type, begin_offset, chunks) ==
    IF i > Len(seq) THEN chunks
    ELSE LET chunk == IF i = Len(seq) THEN "O" ELSE seq[i + 1]
             tag == TagOf(chunk)
             type_ == TypeOf(chunk)
             chunks2 == IF end_of_chunk(prev_tag, tag, prev_type, type_)
                        THEN Append(chunks, <<prev_type, begin_offset, i - 1>>)
                        ELSE chunks
             begin2 == IF start_of_chunk(prev_tag, tag, prev_type, type_)
                       THEN i ELSE begin_offset
         IN EntScan(seq, i + 1, tag, type_, begin2, chunks2)

get_entities(seq) == EntScan(seq, 0, "O", "", 0, <<>>)

\* the slice with an exclusive end offset, sub_text[start:end]
Surface_Exclusive(sub_text, ent) == Slice(sub_text, ent[2], ent[3])

\* sub_text[start:end + 1] (lines 51 and 58)
Surface(sub_text, ent) == Slice(sub_text, ent[2], ent[3] + 1)

(***************************************************************************)
(* The state after the call decoding(text, tag_seq) is entered.            *)
(***************************************************************************)
Init ==
    /\ text \in Texts
    /\ tag_seq \in UNION {[1..m -> Tags] : m \in (0..MaxLen) \cup {Len(text)}}
    /\ pc = "assert"
    /\ err = <<>>
    /\ sub_texts = <<>>
    /\ sub_tag_seqs = <<>>
    /\ ents_list = <<>>
    /\ aps = <<>>
    /\ no_a_words = <<>>
    /\ seg = 0
    /\ k = 0
    /\ sub_aps = <<>>
    /\ sub_no_a_words = <<>>

\* the assertion with <= for ==
LengthsAgree_AtMost(t, ts) == Len(t) <= Len(ts)

\* line 23: the asserted condition
LengthsAgree(t, ts) == Len(t) = Len(ts)

\* lines 23-24: the length assertion, whose message carries both lengths
CheckLengths ==
    /\ pc = "assert"
    /\ IF LengthsAgree(text, tag_seq)
       THEN pc' = "split" /\ err' = err
       ELSE pc' = "error" /\ err' = <<Len(text), Len(tag_seq)>>
    /\ UNCHANGED <<text, tag_seq, sub_texts, sub_tag_seqs, ents_list,
                   aps, no_a_words, seg, k, sub_aps, sub_no_a_words>>

\* lines 26-36
Segment ==
    /\ pc = "split"
    /\ sub_tag_seqs' = Subs(tag_seq, splits(text))
    /\ sub_texts' = Subs(text, splits(text))
    /\ pc' = "extract"
    /\ UNCHANGED <<text, tag_seq, err, ents_list,
                   aps, no_a_words, seg, k, sub_aps, sub_no_a_words>>

\* lines 38-44: zip(sub_texts, sub_tag_seqs) and the two empty accumulators
Extract ==
    /\ pc = "extract"
    /\ ents_list' = [i \in 1..Len(sub_texts) |->
                        <<sub_texts[i], get_entities(sub_tag_seqs[i])>>]
    /\ aps' = <<>>
    /\ no_a_words' = <<>>
    /\ seg' = 1
    /\ pc' = "segment"
    /\ UNCHANGED <<text, tag_seq, err, sub_texts, sub_tag_seqs,
                   k, sub_aps, sub_no_a_words>>

\* lines 45-47: the next segment is taken and its accumulators are emptied
SegmentBegin ==
    /\ pc = "segment"
    /\ seg <= Len(ents_list)
    /\ sub_aps' = <<>>
    /\ sub_no_a_words' = <<>>
    /\ k' = 1
    /\ pc' = "entity"
    /\ UNCHANGED <<text, tag_seq, err, sub_texts, sub_tag_seqs, ents_list,
                   aps, no_a_words, seg>>

\* the entity at position k of the current segment, and its segment text
CurText == ents_list[seg][1]
CurEnts == ents_list[seg][2]
CurEnt == CurEnts[k]

\* lines 51-55 without the clear() of line 55
AspectStep_NoClear(sa, sn, aspect) ==
    IF Len(sn) > 0 THEN <<ExtendLast(Append(sa, <<aspect>>), sn), sn>>
    ELSE <<Append(sa, <<aspect>>), sn>>

\* lines 51-55: sub_aps and sub_no_a_words after an Aspect entity, which
\* opens a group and takes the opinions buffered in the segment
AspectStep(sa, sn, aspect) ==
    IF Len(sn) > 0 THEN <<ExtendLast(Append(sa, <<aspect>>), sn), <<>>>>
    ELSE <<Append(sa, <<aspect>>), sn>>

\* lines 58-62 with sub_aps[0] for sub_aps[-1]
OpinionStep_FirstGroup(sa, sn, opinion) ==
    IF Len(sa) > 0 THEN <<[sa EXCEPT ![1] = Append(@, opinion)], sn>>
    ELSE <<sa, Append(sn, opinion)>>

\* lines 58-62: sub_aps and sub_no_a_words after any other entity, which is
\* taken as an opinion
OpinionStep(sa, sn, opinion) ==
    IF Len(sa) > 0 THEN <<AppendLast(sa, opinion), sn>>
    ELSE <<sa, Append(sn, opinion)>>

\* lines 48-55
AspectEntity ==
    /\ pc = "entity"
    /\ k <= Len(CurEnts)
    /\ CurEnt[1] = "Aspect"
    /\ LET r == AspectStep(sub_aps, sub_no_a_words, Surface(CurText, CurEnt))
       IN sub_aps' = r[1] /\ sub_no_a_words' = r[2]
    /\ k' = k + 1
    /\ UNCHANGED <<text, tag_seq, pc, err, sub_texts, sub_tag_seqs, ents_list,
                   aps, no_a_words, seg>>

\* lines 48-49 and 56-62
OpinionEntity ==
    /\ pc = "entity"
    /\ k <= Len(CurEnts)
    /\ CurEnt[1] # "Aspect"
    /\ LET r == OpinionStep(sub_aps, sub_no_a_words, Surface(CurText, CurEnt))
       IN sub_aps' = r[1] /\ sub_no_a_words' = r[2]
    /\ k' = k + 1
    /\ UNCHANGED <<text, tag_seq, pc, err, sub_texts, sub_tag_seqs, ents_list,
                   aps, no_a_words, seg>>

\* lines 64-68 with the carried opinions given to the first group of the
\* segment
MergeGroups_FirstGroup(a, n, sa) ==
    IF Len(n) > 0 THEN <<[a \o sa EXCEPT ![Len(a) + 1] = @ \o n], <<>>>>
    ELSE <<a \o sa, n>>

\* lines 64-68 without the clear() of line 68
MergeGroups_NoClear(a, n, sa) ==
    IF Len(n) > 0 THEN <<ExtendLast(a \o sa, n), n>>
    ELSE <<a \o sa, n>>

\* lines 64-68: aps and no_a_words after a segment that produced groups
MergeGroups(a, n, sa) ==
    IF Len(n) > 0 THEN <<ExtendLast(a \o sa, n), <<>>>>
    ELSE <<a \o sa, n>>

\* lines 69-73 without the branch of lines 70-71
MergeOrphans_AlwaysBuffer(a, n, sn) == <<a, n \o sn>>

\* lines 69-73 with the segment's opinions put in front of the carried ones
MergeOrphans_Prepend(a, n, sn) ==
    IF Len(a) > 0 THEN <<ExtendLast(a, sn), n>>
    ELSE <<a, sn \o n>>

\* lines 69-73: aps and no_a_words after a segment with opinions only
MergeOrphans(a, n, sn) ==
    IF Len(a) > 0 THEN <<ExtendLast(a, sn), n>>
    ELSE <<a, n \o sn>>

\* lines 64-73: the end of the segment's entity loop
SegmentEnd ==
    /\ pc = "entity"
    /\ k > Len(CurEnts)
    /\ LET r == IF Len(sub_aps) > 0
                THEN MergeGroups(aps, no_a_words, sub_aps)
                ELSE IF Len(sub_no_a_words) > 0
                     THEN MergeOrphans(aps, no_a_words, sub_no_a_words)
                     ELSE <<aps, no_a_words>>
       IN aps' = r[1] /\ no_a_words' = r[2]
    /\ seg' = seg + 1
    /\ pc' = "segment"
    /\ UNCHANGED <<text, tag_seq, err, sub_texts, sub_tag_seqs, ents_list,
                   k, sub_aps, sub_no_a_words>>

\* lines 76-77 without the test of line 75
SentinelGroup_Always(a, n) ==
    <<Append(a, <<Sentinel>> \o n), <<Sentinel>> \o n>>

\* lines 75-77: no_a_words and aps after the scan; the list no_a_words itself
\* becomes the last group
SentinelGroup(a, n) ==
    IF Len(n) > 0 THEN <<Append(a, <<Sentinel>> \o n), <<Sentinel>> \o n>>
    ELSE <<a, n>>

\* lines 75-79: the sentinel group and the return
Finish ==
    /\ pc = "segment"
    /\ seg > Len(ents_list)
    /\ LET r == SentinelGroup(aps, no_a_words)
       IN aps' = r[1] /\ no_a_words' = r[2]
    /\ pc' = "done"
    /\ UNCHANGED <<text, tag_seq, err, sub_texts, sub_tag_seqs, ents_list,
                   seg, k, sub_aps, sub_no_a_words>>

Next ==
    \/ CheckLengths
    \/ Segment
    \/ Extract
    \/ SegmentBegin
    \/ AspectEntity
    \/ OpinionEntity
    \/ SegmentEnd
    \/ Finish

Spec == Init /\ [][Next]_vars

(***************************************************************************)
(* Vocabulary of the properties, read off text, tag_seq and ents_list.     *)
(***************************************************************************)
\* the characters of sub_text at the 0-based offsets start..end of ent
CharsAt(sub_text, ent) ==
    [j \in 1..(ent[3] - ent[2] + 1) |-> sub_text[ent[2] + j]]

\* the entities of segment i that are (isAspect) or are not Aspect entities
EntsOf(i, isAspect) ==
    SelectSeq(ents_list[i][2], LAMBDA e : (e[1] = "Aspect") = isAspect)

\* their surface strings, in entity order
SurfacesOf(i, isAspect) ==
    [j \in 1..Len(EntsOf(i, isAspect)) |->
        CharsAt(ents_list[i][1], EntsOf(i, isAspect)[j])]

\* the surface strings of segments lo..hi, in segment order
RECURSIVE SurfacesIn(_, _, _)
SurfacesIn(lo, hi, isAspect) ==
    IF lo > hi THEN <<>>
    ELSE SurfacesOf(lo, isAspect) \o SurfacesIn(lo + 1, hi, isAspect)

AllAspects == SurfacesIn(1, Len(ents_list), TRUE)
AllOpinions == SurfacesIn(1, Len(ents_list), FALSE)

\* the entity loop of the current segment is over (line 64 is next)
AtSegmentEnd == pc = "entity" /\ k > Len(CurEnts)

(***************************************************************************)
(* C1: opinions buffered in no_a_words by leading segments without an      *)
(* Aspect entity are all attached to the FIRST group emitted by the first  *)
(* segment that has Aspect entities, also when it emits several groups.    *)
(***************************************************************************)
C1_OrphansJoinFirstGroup ==
    [][(AtSegmentEnd /\ Len(sub_aps) > 0 /\ Len(no_a_words) > 0)
         => /\ Len(aps') >= Len(aps) + 1
            /\ aps'[Len(aps) + 1] = sub_aps[1] \o no_a_words]_vars

(***************************************************************************)
(* C2: when the entities are all Opinion entities (at least one), decoding *)
(* returns exactly one group: the sentinel "None" followed by the surface  *)
(* strings of all opinions in order of appearance.                         *)
(***************************************************************************)
C2_OnlyOpinions ==
    (pc = "done" /\ AllAspects = <<>> /\ AllOpinions # <<>>)
        => aps = << <<Sentinel>> \o AllOpinions >>

\* opinions of two segments, with different surface strings, were returned
C2_Witness ==
    /\ pc = "done"
    /\ AllAspects = <<>>
    /\ Len(ents_list) >= 2
    /\ SurfacesOf(1, FALSE) # <<>>
    /\ SurfacesOf(2, FALSE) # <<>>
    /\ SurfacesOf(1, FALSE)[1] # SurfacesOf(2, FALSE)[1]

(***************************************************************************)
(* C3: a length mismatch fails with an error carrying both lengths before  *)
(* anything is segmented or extracted and nothing is returned; with equal  *)
(* lengths decoding never fails and runs on until it returns.              *)
(***************************************************************************)
C3_LengthMismatch ==
    /\ Len(text) # Len(tag_seq) => pc \in {"assert", "error"}
    /\ pc = "error" => /\ Len(text) # Len(tag_seq)
                       /\ err = <<Len(text), Len(tag_seq)>>
                       /\ sub_texts = <<>> /\ sub_tag_seqs = <<>>
                       /\ ents_list = <<>> /\ aps = <<>>
    /\ Len(text) = Len(tag_seq) => /\ pc # "error"
                                   /\ pc # "done" => ENABLED Next

\* the assertion failed on a tag sequence longer than the text
C3_Witness ==
    /\ pc = "error"
    /\ Len(text) > 0
    /\ Len(tag_seq) = Len(text) + 1
    /\ err = <<Len(text), Len(tag_seq)>>

(***************************************************************************)
(* C4: the segments partition the input: the sub_texts concatenate to      *)
(* text, the sub_tag_seqs to tag_seq, the i-th of each have the same       *)
(* length, and the segment lengths sum to len(text).                       *)
(***************************************************************************)
RECURSIVE Concat(_)
Concat(ss) == IF ss = <<>> THEN <<>> ELSE Head(ss) \o Concat(Tail(ss))

RECURSIVE SumLen(_)
SumLen(ss) == IF ss = <<>> THEN 0 ELSE Len(Head(ss)) + SumLen(Tail(ss))

Segmented == pc \in {"extract", "segment", "entity", "done"}

C4_SegmentsPartition ==
    Segmented =>
        /\ Concat(sub_texts) = text
        /\ Concat(sub_tag_seqs) = tag_seq
        /\ Len(sub_texts) = Len(sub_tag_seqs)
        /\ \A i \in 1..Len(sub_texts) : Len(sub_texts[i]) = Len(sub_tag_seqs[i])
        /\ SumLen(sub_texts) = Len(text)

\* a text with two punctuation characters and a letter was split
C4_Witness ==
    /\ Segmented
    /\ Len(sub_texts) = 3
    /\ Len(text) = 3
    /\ \E i \in 1..3 : Len(sub_texts[i]) = 2

(***************************************************************************)
(* C5: there is one more segment than there are punctuation characters in  *)
(* text; every segment but the first begins with a punctuation character   *)
(* and no segment has a punctuation character at an offset other than 0.   *)
(***************************************************************************)
C5_SegmentsStartAtPunctuation ==
    Segmented =>
        /\ Len(sub_texts) = Cardinality({i \in 1..Len(text) : text[i] \in puncs}) + 1
        /\ \A i \in 2..Len(sub_texts) :
               sub_texts[i] # <<>> /\ sub_texts[i][1] \in puncs
        /\ sub_texts[1] # <<>> => sub_texts[1][1] \notin puncs
        /\ \A i \in 1..Len(sub_texts) :
               \A j \in 2..Len(sub_texts[i]) : sub_texts[i][j] \notin puncs

\* a text that begins with an ASCII comma and holds a full-width full stop
\* was split
C5_Witness ==
    /\ Segmented
    /\ Len(text) = 3
    /\ text[1] = 44
    /\ \E i \in 2..3 : text[i] = 12290
    /\ Len(sub_texts) = 3

(***************************************************************************)
(* C6 as stated: every returned group has an aspect slot at element 0; the *)
(* groups whose element 0 is not the sentinel "None" correspond one-to-one *)
(* and in order to the Aspect entities, element 0 being the characters at  *)
(* the entity's offsets; with no entities the result is the empty list.    *)
(***************************************************************************)
Heads(groups) == [i \in 1..Len(groups) |-> groups[i][1]]

NoEntities == AllAspects = <<>> /\ AllOpinions = <<>>

C6_NonSentinelGroupsAreAspects ==
    pc = "done" =>
        /\ \A i \in 1..Len(aps) : Len(aps[i]) >= 1
        /\ Heads(SelectSeq(aps, LAMBDA g : g[1] # Sentinel)) = AllAspects
        /\ NoEntities => aps = <<>>

(***************************************************************************)
(* C6 amended: every returned group has an aspect slot at element 0 and    *)
(* opinion surface strings after it; the groups other than the final group *)
(* appended by lines 75-77 (present exactly when no_a_words is non-empty   *)
(* after the scan) correspond one-to-one and in order to the Aspect        *)
(* entities, element 0 being the characters at the entity's offsets; with  *)
(* no entities the result is the empty list.                               *)
(***************************************************************************)
C6_AspectGroups ==
    pc = "done" =>
        LET n == IF no_a_words # <<>> THEN Len(aps) - 1 ELSE Len(aps)
        IN /\ \A i \in 1..Len(aps) : Len(aps[i]) >= 1
           /\ n >= 0
           /\ Heads(SubSeq(aps, 1, n)) = AllAspects
           /\ no_a_words # <<>> => aps[Len(aps)][1] = Sentinel
           /\ \A i \in 1..Len(aps) : \A j \in 2..Len(aps[i]) :
                  \E o \in 1..Len(AllOpinions) : aps[i][j] = AllOpinions[o]
           /\ NoEntities => aps = <<>>

\* two Aspect entities with different surface strings and an opinion were
\* decoded
C6_Witness ==
    /\ pc = "done"
    /\ Len(AllAspects) >= 2
    /\ AllAspects[1] # AllAspects[2]
    /\ AllOpinions # <<>>
    /\ Len(aps) = Len(AllAspects)

(***************************************************************************)
(* C7: after a segment with a non-empty sub_aps its groups are appended to *)
(* aps in order, the carried no_a_words are appended in order to the LAST  *)
(* of these groups, and no_a_words is emptied.                             *)
(***************************************************************************)
C7_CarriedOrphansJoinLastGroup ==
    [][(AtSegmentEnd /\ Len(sub_aps) > 0)
         => LET n == Len(aps)
                m == Len(sub_aps)
            IN /\ Len(aps') = n + m
               /\ \A i \in 1..n : aps'[i] = aps[i]
               /\ \A j \in 1..(m - 1) : aps'[n + j] = sub_aps[j]
               /\ aps'[n + m] = sub_aps[m] \o no_a_words
               /\ no_a_words' = <<>>]_vars

\* the second segment emitted two groups after the first one left an orphan
\* opinion, which is now in the second group
C7_Witness ==
    /\ pc = "segment"
    /\ seg = 3
    /\ SurfacesOf(1, TRUE) = <<>>
    /\ Len(SurfacesOf(1, FALSE)) = 1
    /\ Len(SurfacesOf(2, TRUE)) = 2
    /\ SurfacesOf(2, FALSE) = <<>>
    /\ Len(aps) = 2
    /\ Len(aps[1]) = 1
    /\ aps[2] = <<SurfacesOf(2, TRUE)[2], SurfacesOf(1, FALSE)[1]>>
    /\ no_a_words = <<>>

(***************************************************************************)
(* C8: an Opinion entity that follows an Aspect entity of its segment is   *)
(* appended to the group of the most recent such Aspect entity, the last   *)
(* group of sub_aps, and to nothing else.                                  *)
(***************************************************************************)
\* the Aspect entities of the current segment before position k
PrevAspects == SelectSeq(SubSeq(CurEnts, 1, k - 1), LAMBDA e : e[1] = "Aspect")

C8_OpinionJoinsLatestAspect ==
    [][(pc = "entity" /\ k <= Len(CurEnts) /\ CurEnt[1] = "Opinion"
          /\ PrevAspects # <<>>)
         => LET m == Len(PrevAspects)
            IN /\ Len(sub_aps) = m
               /\ sub_aps[m][1] = CharsAt(CurText, PrevAspects[m])
               /\ Len(sub_aps') = m
               /\ \A j \in 1..(m - 1) : sub_aps'[j] = sub_aps[j]
               /\ sub_aps'[m] = Append(sub_aps[m], CharsAt(CurText, CurEnt))
               /\ UNCHANGED <<sub_no_a_words, aps, no_a_words>>]_vars

\* an opinion after two aspects of the segment is in the second group
C8_Witness ==
    /\ pc = "entity"
    /\ k = 4
    /\ CurEnts[1][1] = "Aspect"
    /\ CurEnts[2][1] = "Aspect"
    /\ CurEnts[3][1] = "Opinion"
    /\ Len(sub_aps) = 2
    /\ Len(sub_aps[1]) = 1
    /\ sub_aps[2] = <<CharsAt(CurText, CurEnts[2]), CharsAt(CurText, CurEnts[3])>>

(***************************************************************************)
(* C9: the Opinion entities before the first Aspect entity of a segment    *)
(* are buffered in sub_no_a_words; that Aspect entity's new group takes    *)
(* them all in order and sub_no_a_words is emptied; later Aspect entities  *)
(* of the segment find it empty and receive none.                          *)
(***************************************************************************)
\* the surface strings of the entities of the current segment before k
PrevSurfaces ==
    [j \in 1..(k - 1) |-> CharsAt(CurText, CurEnts[j])]

C9_BufferMatchesEntities ==
    pc = "entity" =>
        sub_no_a_words = IF PrevAspects = <<>> THEN PrevSurfaces ELSE <<>>

C9_AspectTakesBuffer ==
    (pc = "entity" /\ k <= Len(CurEnts) /\ CurEnt[1] = "Aspect")
        => /\ sub_aps' = Append(sub_aps,
                                <<CharsAt(CurText, CurEnt)>> \o sub_no_a_words)
           /\ sub_no_a_words' = <<>>

C9_FirstAspectTakesSegmentOrphans ==
    [] C9_BufferMatchesEntities /\ [][C9_AspectTakesBuffer]_vars

\* an opinion, then two aspects: the first group holds the opinion, the
\* second group holds its aspect only
C9_Witness ==
    /\ pc = "entity"
    /\ k = 4
    /\ CurEnts[1][1] = "Opinion"
    /\ CurEnts[2][1] = "Aspect"
    /\ CurEnts[3][1] = "Aspect"
    /\ sub_aps = << <<CharsAt(CurText, CurEnts[2]), CharsAt(CurText, CurEnts[1])>>,
                    <<CharsAt(CurText, CurEnts[3])>> >>
    /\ sub_no_a_words = <<>>

(***************************************************************************)
(* C10: after a segment with Opinion entities and no Aspect entity, the    *)
(* segment's opinions are appended to the last group of aps and no_a_words *)
(* is unchanged if aps is non-empty; otherwise they are appended to        *)
(* no_a_words and aps stays empty.                                         *)
(***************************************************************************)
C10_OpinionOnlySegment ==
    [][(AtSegmentEnd /\ SurfacesOf(seg, TRUE) = <<>>
          /\ SurfacesOf(seg, FALSE) # <<>>)
         => IF Len(aps) > 0
            THEN /\ Len(aps') = Len(aps)
                 /\ \A i \in 1..(Len(aps) - 1) : aps'[i] = aps[i]
                 /\ aps'[Len(aps)] = aps[Len(aps)] \o SurfacesOf(seg, FALSE)
                 /\ no_a_words' = no_a_words
            ELSE /\ no_a_words' = no_a_words \o SurfacesOf(seg, FALSE)
                 /\ aps' = <<>>]_vars

\* the opinion of the second segment joined the group of the first
\* segment's aspect
C10_Witness ==
    /\ pc = "segment"
    /\ seg = 3
    /\ Len(SurfacesOf(1, TRUE)) = 1
    /\ SurfacesOf(1, FALSE) = <<>>
    /\ SurfacesOf(2, TRUE) = <<>>
    /\ Len(SurfacesOf(2, FALSE)) = 1
    /\ aps = << <<SurfacesOf(1, TRUE)[1], SurfacesOf(2, FALSE)[1]>> >>
    /\ no_a_words = <<>>

(***************************************************************************)
(* C11 as stated: the segment list contains an empty segment when two      *)
(* punctuation characters are adjacent in text, and when text[0] is a      *)
(* punctuation character.                                                  *)
(***************************************************************************)
HasEmptySegment == \E i \in 1..Len(sub_texts) : sub_texts[i] = <<>>

\* text[p] and text[p + 1] (0-based p) are both punctuation characters
AdjacentPuncs(p) == text[p + 1] \in puncs /\ text[p + 2] \in puncs

C11_EmptySegmentIfAdjacentOrLeading ==
    Segmented =>
        /\ (\E p \in 0..(Len(text) - 2) : AdjacentPuncs(p)) => HasEmptySegment
        /\ (text # <<>> /\ text[1] \in puncs) => HasEmptySegment

(***************************************************************************)
(* C11 amended: the segment list contains an empty segment when text[0] is *)
(* a punctuation character (the first segment, text[0:0]) and, for a       *)
(* non-empty text, only then; no later segment is empty: of two adjacent   *)
(* punctuation characters the first forms a segment of one character.      *)
(***************************************************************************)
C11_EmptySegmentOnlyLeading ==
    Segmented =>
        /\ (text # <<>> /\ text[1] \in puncs) => sub_texts[1] = <<>>
        /\ text # <<>> => (HasEmptySegment <=> text[1] \in puncs)
        /\ \A i \in 2..Len(sub_texts) : sub_texts[i] # <<>>
        /\ \A p \in 0..(Len(text) - 2) :
               AdjacentPuncs(p) =>
                   \E i \in 2..Len(sub_texts) : sub_texts[i] = <<text[p + 1]>>

\* a text of two leading punctuation characters and a letter was split into
\* an empty segment, a segment of one punctuation character and the rest
C11_Witness ==
    /\ Segmented
    /\ Len(text) = 3
    /\ AdjacentPuncs(0)
    /\ text[3] \notin puncs
    /\ sub_texts = << <<>>, <<text[1]>>, <<text[2], text[3]>> >>

(***************************************************************************)
(* C12: decoding conserves opinions: after every segment the opinions held *)
(* by the groups of aps and by no_a_words are, with multiplicity, exactly  *)
(* the Opinion entities of the segments scanned so far; in the returned    *)
(* list every Opinion entity is an opinion element of exactly one group    *)
(* once, and the number of elements of all groups is the number of         *)
(* entities, plus one when the sentinel group was appended.                *)
(***************************************************************************)
\* the number of positions of seq that hold v
Count(seq, v) == Cardinality({i \in 1..Len(seq) : seq[i] = v})

\* seq1 and seq2 hold the same elements with the same multiplicities
SameBag(seq1, seq2) ==
    /\ Len(seq1) = Len(seq2)
    /\ \A i \in 1..Len(seq1) : Count(seq1, seq1[i]) = Count(seq2, seq1[i])

\* the opinion elements (all elements but element 0) of the groups, in order
OpinionSlots(groups) ==
    Concat([i \in 1..Len(groups) |-> Tail(groups[i])])

C12_OpinionsConserved ==
    /\ pc = "segment" =>
           SameBag(OpinionSlots(aps) \o no_a_words,
                   SurfacesIn(1, seg - 1, FALSE))
    /\ pc = "done" =>
           /\ SameBag(OpinionSlots(aps), AllOpinions)
           /\ SumLen(aps) = Len(AllAspects) + Len(AllOpinions)
                              + (IF no_a_words # <<>> THEN 1 ELSE 0)

\* an orphan opinion of the first segment and an opinion of the second
\* segment's aspect, with different surface strings, were returned
C12_Witness ==
    /\ pc = "done"
    /\ Len(ents_list) = 2
    /\ SurfacesOf(1, TRUE) = <<>>
    /\ Len(SurfacesOf(1, FALSE)) = 1
    /\ Len(SurfacesOf(2, TRUE)) = 1
    /\ Len(SurfacesOf(2, FALSE)) = 1
    /\ SurfacesOf(1, FALSE)[1] # SurfacesOf(2, FALSE)[1]
    /\ Len(aps) = 1
    /\ Len(aps[1]) = 3

(***************************************************************************)
(* C13: during the scan, after each segment, a non-empty aps implies an    *)
(* empty no_a_words; hence the sentinel group, the group that lines 75-77  *)
(* append, is emitted only when the text has no Aspect entity, and when it *)
(* is in the returned list it is the only group of the list.               *)
(***************************************************************************)
\* lines 75-77 appended the sentinel group: no_a_words is that group
SentinelGroupEmitted == pc = "done" /\ no_a_words # <<>>

C13_SentinelGroupAlone ==
    /\ pc \in {"segment", "entity"} => (aps # <<>> => no_a_words = <<>>)
    /\ SentinelGroupEmitted =>
           /\ AllAspects = <<>>
           /\ no_a_words[1] = Sentinel
           /\ aps = <<no_a_words>>

\* the opinions of three segments were returned in the sentinel group alone
C13_Witness ==
    /\ SentinelGroupEmitted
    /\ Len(ents_list) = 3
    /\ \A i \in 1..3 : Len(SurfacesOf(i, FALSE)) = 1
    /\ aps = << <<Sentinel>> \o AllOpinions >>

(***************************************************************************)
(* C14: no entity spans a segment boundary. A run of B-X/I-X tags that     *)
(* continues through a punctuation character at index p gives two          *)
(* entities, one ending at p - 1 and one starting at p (offset 0 of the    *)
(* next segment, opened by the I-X tag), hence two group elements; no      *)
(* surface string of the output holds a punctuation character except as    *)
(* its first character.                                                    *)
(***************************************************************************)
Extracted == pc \in {"segment", "entity", "done"}

\* the 1-based number of the segment that starts at the punctuation
\* character text[p] (0-based p)
SegmentFrom(p) == Cardinality({q \in 1..(p + 1) : text[q] \in puncs}) + 1

\* a run of tags of one entity type goes on through the punctuation
\* character text[p], 0-based p >= 1
RunThrough(p) ==
    /\ text[p + 1] \in puncs
    /\ TypeOf(tag_seq[p]) # "_"
    /\ TypeOf(tag_seq[p + 1]) = TypeOf(tag_seq[p])
    /\ TagOf(tag_seq[p + 1]) = "I"

\* the surface string w is an element of a group of aps
IsElement(w) ==
    \E i \in 1..Len(aps) : \E j \in 1..Len(aps[i]) : aps[i][j] = w

C14_EntitiesStayInSegments ==
    Extracted =>
        /\ \A i \in 1..Len(ents_list) : \A n \in 1..Len(ents_list[i][2]) :
               LET e == ents_list[i][2][n]
               IN 0 <= e[2] /\ e[2] <= e[3] /\ e[3] < Len(ents_list[i][1])
        /\ \A p \in 1..(Len(text) - 1) :
               RunThrough(p) =>
                   LET j == SegmentFrom(p)
                       before == ents_list[j - 1]
                       after == ents_list[j]
                   IN /\ before[2] # <<>> /\ after[2] # <<>>
                      /\ LET e1 == before[2][Len(before[2])]
                             e2 == after[2][1]
                         IN /\ e1[1] = TypeOf(tag_seq[p])
                            /\ e1[3] = Len(before[1]) - 1
                            /\ e2[1] = TypeOf(tag_seq[p])
                            /\ e2[2] = 0
                            /\ CharsAt(after[1], e2)[1] = text[p + 1]
                            /\ pc = "done" =>
                                   /\ IsElement(CharsAt(before[1], e1))
                                   /\ IsElement(CharsAt(after[1], e2))
                                   /\ SumLen(aps) >= 2
        /\ pc = "done" =>
               \A i \in 1..Len(aps) : \A j \in 1..Len(aps[i]) :
                   \A c \in 2..Len(aps[i][j]) : aps[i][j][c] \notin puncs

\* B-Opinion I-Opinion I-Opinion over letter, punctuation, letter was
\* decoded as the two opinions "letter" and "punctuation letter"
C14_Witness ==
    /\ pc = "done"
    /\ Len(text) = 3
    /\ text[1] \notin puncs /\ text[2] \in puncs /\ text[3] \notin puncs
    /\ tag_seq = <<"B-Opinion", "I-Opinion", "I-Opinion">>
    /\ aps = << <<Sentinel, <<text[1]>>, <<text[2], text[3]>> >> >>
====
